---- MODULE Spec2Model ----
(***************************************************************************)
(* BoomiisUK API (src/main.py, src/schemas.py): the request handlers of    *)
(* the restaurant backend as a state machine over the document store, the  *)
(* process environment and the client's session cookie.                    *)
(*                                                                         *)
(* Strings that the code takes apart (e-mail addresses, cookie values,     *)
(* HMAC digests, ObjectId strings) are sequences of one-character strings. *)
(* Money is a whole number of 1/400 GBP, so that every price of the model  *)
(* (a multiple of 1/16 GBP) and every sum of them is exact in binary       *)
(* floating point, as it is in the model.                                  *)
(***************************************************************************)
EXTENDS Integers, Sequences, FiniteSets, TLC

VARIABLES
    ADMIN_EMAIL,          \* module global, main.py:43
    SESSION_SECRET,       \* module global, main.py:42
    ADMIN_PASSWORD_HASH,  \* module global, main.py:44 (read once, at import)
    environ,              \* os.environ: ADMIN_PASSWORD_HASH, ADMIN_PASSWORD, STRIPE_SECRET
    envWrites,            \* how many times os.environ["ADMIN_PASSWORD_HASH"] was assigned (saturating)
    jar,                  \* the client's boom_admin cookie
    reservation,          \* db["reservation"]
    order,                \* db["order"]
    menucategory,         \* db["menucategory"]
    menuitem,             \* db["menuitem"]
    subscriber,           \* db["subscriber"]
    eventinquiry,         \* db["eventinquiry"]
    blogpost,             \* db["blogpost"]
    galleryimage,         \* db["galleryimage"]
    intents,              \* payment intents created at the payment processor
    workers,              \* create_reservation requests in flight (threadpool workers)
    last                  \* the last request handled and its response

config == <<ADMIN_EMAIL, SESSION_SECRET, ADMIN_PASSWORD_HASH>>
menu == <<menucategory, menuitem>>
content == <<blogpost, galleryimage>>
collections == <<reservation, order, menucategory, menuitem, subscriber,
                 eventinquiry, blogpost, galleryimage>>
vars == <<ADMIN_EMAIL, SESSION_SECRET, ADMIN_PASSWORD_HASH, environ, envWrites,
          jar, reservation, order, menucategory, menuitem, subscriber,
          eventinquiry, blogpost, galleryimage, intents, workers, last>>

(***************************************************************************)
(* Bounds of the model.                                                    *)
(***************************************************************************)
MaxEmailLen == 2     \* longest e-mail string (configured or forged)
MaxOtherSlot == 1    \* reservations submitted for the second slot (SpecReservations)
NumWorkers == 2      \* concurrent create_reservation requests (SpecRace)
MaxOrders == 2       \* orders created (SpecOrders)
MaxItems == 2        \* items of one order (SpecTotals)
MaxDocs == 2         \* documents created in one run (Spec)
MaxCountedWrites == 3  \* envWrites counts up to this and stays there

(***************************************************************************)
(* Python values.                                                          *)
(***************************************************************************)
None == "None"
NoneStr == <<"None">>          \* None where a character string is expected

Min(a, b) == IF a <= b THEN a ELSE b

SeqsUpTo(S, n) == UNION {[1..k -> S] : k \in 0..n}

RECURSIVE Repeat(_, _)
Repeat(x, n) == IF n <= 0 THEN <<>> ELSE <<x>> \o Repeat(x, n - 1)

RECURSIVE SumSeq(_)
SumSeq(s) == IF s = <<>> THEN 0 ELSE Head(s) + SumSeq(Tail(s))

HexDigits == <<"0", "1", "2", "3", "4", "5", "6", "7",
               "8", "9", "a", "b", "c", "d", "e", "f">>
HexChars == {HexDigits[i] : i \in 1..16}
Hex(n) == HexDigits[n + 1]
HexVal(c) == CHOOSE n \in 0..15 : HexDigits[n + 1] = c

(***************************************************************************)
(* Auth: hash_password, verify_password, the session HMAC, require_admin.  *)
(***************************************************************************)
EmailChars == {"a", "b", "@", ":"}
EmailStrings == SeqsUpTo(EmailChars, MaxEmailLen)
Secrets == {"dev-secret-change", "s3cret"}
Passwords == {"admin12345", "hunter2"}
DefaultAdminPassword == "admin12345"

\* hashlib.sha256(password).hexdigest(): collision-free on the passwords of the model.
hash_password(password) == <<"sha256", password>>

\* hmac.compare_digest: equality of the two strings.
compare_digest(a, b) == a = b

verify_password(password, hashed) == compare_digest(hash_password(password), hashed)

CharCode(c) == CASE c = "a" -> 1 [] c = "b" -> 2 [] c = "@" -> 3 [] c = ":" -> 4
SecretCode(k) == IF k = "dev-secret-change" THEN 1 ELSE 2

\* The digest's length in hex characters (64 in hashlib; here just long enough
\* to keep the digest collision-free on the messages of the model).
DigestLen == MaxEmailLen + 2

\* hmac.new(key, msg, sha256).hexdigest(): a fixed-length hex string, a different
\* one for every (key, message) pair of the model.
HmacHex(key, msg) ==
    <<Hex(SecretCode(key)), Hex(Len(msg))>>
        \o [i \in 1..(DigestLen - 2) |->
                IF i <= Len(msg) THEN Hex(CharCode(msg[i])) ELSE "0"]

\* The index of the first ":" of s, 0 when there is none.
FirstColon(s) ==
    IF \E i \in 1..Len(s) : s[i] = ":"
    THEN CHOOSE i \in 1..Len(s) : s[i] = ":" /\ \A j \in 1..(i - 1) : s[j] # ":"
    ELSE 0

\* session.split(":", 1): the parts before and after the first colon; one part
\* only (and the unpacking into email, sig raises ValueError) without a colon.
SplitOnce(s) ==
    LET i == FirstColon(s)
    IN  IF i = 0 THEN <<s>>
        ELSE <<SubSeq(s, 1, i - 1), SubSeq(s, i + 1, Len(s))>>

\* require_admin: TRUE when the dependency returns, FALSE when it raises 401.
require_admin(session) ==
    IF session = NoneStr \/ session = <<>> THEN FALSE
    ELSE LET parts == SplitOnce(session)
         IN  IF Len(parts) # 2 THEN FALSE
             ELSE LET email == parts[1]
                      sig == parts[2]
                      expected == HmacHex(SESSION_SECRET, email)
                  IN  /\ compare_digest(sig, expected)
                      /\ email = ADMIN_EMAIL

\* The cookie value admin_login sets (main.py:83-84).
SessionCookie == ADMIN_EMAIL \o <<":">> \o HmacHex(SESSION_SECRET, ADMIN_EMAIL)

(***************************************************************************)
(* Document store: collections are sequences of documents in insertion     *)
(* order; a document is a record with an "_id".  An ObjectId is modelled   *)
(* by a number, and crosses the API as its 24-character hex string.        *)
(***************************************************************************)
ObjectIdLen == 24

NextId(coll) == Len(coll) + 1

\* str(ObjectId): 24 hex characters.
OidStr(n) == Repeat("0", ObjectIdLen - 2) \o <<Hex(n \div 16), Hex(n % 16)>>

RECURSIVE HexValue(_)
HexValue(s) ==
    IF s = <<>> THEN 0
    ELSE 16 * HexValue(SubSeq(s, 1, Len(s) - 1)) + HexVal(s[Len(s)])

\* bson.ObjectId(s) accepts exactly the strings of 24 hex characters and raises
\* InvalidId on every other one.
ObjectIdValid(s) == Len(s) = ObjectIdLen /\ \A i \in 1..Len(s) : s[i] \in HexChars
ObjectId(s) == HexValue(s)

\* database.create_document: insert one document, return the new collection;
\* the id it returns is OidStr(NextId(coll)).
create_document(coll, data) == Append(coll, [_id |-> NextId(coll)] @@ data)

\* database.get_documents(collection, {key: val}): the matching documents, in order.
get_documents(coll, key, val) == SelectSeq(coll, LAMBDA d : d[key] = val)

FirstMatch(coll, key, val) ==
    IF \E i \in 1..Len(coll) : coll[i][key] = val
    THEN CHOOSE i \in 1..Len(coll) :
            coll[i][key] = val /\ \A j \in 1..(i - 1) : coll[j][key] # val
    ELSE 0

\* pymongo update_one({key: val}, {"$set": fields}, upsert): the first matching
\* document gets the fields set (added when it lacks them); with no match and
\* upsert, one document made of the filter and the fields is inserted.
update_one(coll, key, val, fields, upsert) ==
    LET i == FirstMatch(coll, key, val)
    IN  IF i # 0 THEN [coll EXCEPT ![i] = fields @@ coll[i]]
        ELSE IF upsert
             THEN Append(coll, [_id |-> NextId(coll)] @@ fields @@ (key :> val))
             ELSE coll

(***************************************************************************)
(* Reservations (main.py:263-281, schemas.py:80-88).  The contact fields   *)
(* (full_name, email, phone, notes) are stored as submitted and read by    *)
(* nothing; the model leaves them out.                                     *)
(***************************************************************************)
Capacity == 20
ActiveStatuses == {"requested", "confirmed"}

\* count_documents({"date", "time", "status": {"$in": ["requested", "confirmed"]}})
CountActive(coll, date, time) ==
    Len(SelectSeq(coll, LAMBDA d :
            d.date = date /\ d.time = time /\ d.status \in ActiveStatuses))

\* Reservation(**body): party_size is Field(ge=1, le=20); status defaults to "requested".
ReservationValid(body) == body.party_size >= 1 /\ body.party_size <= 20
Reservation(body) ==
    [date |-> body.date, time |-> body.time, party_size |-> body.party_size,
     status |-> "requested"]

\* A variant of the gate that refuses one reservation too late.
FullyBookedOffByOne(existing) == existing > Capacity

\* main.py:278: the gate on the count taken at line 277.
FullyBooked(existing) == existing >= Capacity

\* Lines 278-281 of create_reservation, given the count taken at line 277.
FinishReservation(existing, body) ==
    LET req == [op |-> "create_reservation", date |-> body.date, time |-> body.time,
                party_size |-> body.party_size, existing |-> existing]
    IN  IF FullyBooked(existing)
        THEN /\ last' = [status |-> 409] @@ req
             /\ UNCHANGED reservation
        ELSE IF ~ReservationValid(body)
        THEN /\ last' = [status |-> 500] @@ req       \* ValidationError, unhandled
             /\ UNCHANGED reservation
        ELSE /\ reservation' = create_document(reservation, Reservation(body))
             /\ last' = [status |-> 200,
                         reservation_id |-> OidStr(NextId(reservation))] @@ req

Idle == [pc |-> "idle"]

\* create_reservation handled with no other request in between.
CreateReservation(body) ==
    /\ \A w \in DOMAIN workers : workers[w] = Idle
    /\ FinishReservation(CountActive(reservation, body.date, body.time), body)
    /\ UNCHANGED <<config, environ, envWrites, jar, order, menu, subscriber,
                   eventinquiry, content, intents, workers>>

\* A threadpool worker runs create_reservation up to and including line 277.
ReservationCount(w, body) ==
    /\ workers[w] = Idle
    /\ workers' = [workers EXCEPT ![w] =
            [pc |-> "counted", body |-> body,
             existing |-> CountActive(reservation, body.date, body.time)]]
    /\ UNCHANGED <<config, environ, envWrites, jar, collections, intents, last>>

\* A variant of the insert step that counts again, in one step with the insert.
ReservationInsertRecount(w) ==
    /\ workers[w].pc = "counted"
    /\ FinishReservation(CountActive(reservation, workers[w].body.date,
                                     workers[w].body.time), workers[w].body)
    /\ workers' = [workers EXCEPT ![w] = Idle]
    /\ UNCHANGED <<config, environ, envWrites, jar, order, menu, subscriber,
                   eventinquiry, content, intents>>

\* The same worker runs lines 278-281.
ReservationInsert(w) ==
    /\ workers[w].pc = "counted"
    /\ FinishReservation(workers[w].existing, workers[w].body)
    /\ workers' = [workers EXCEPT ![w] = Idle]
    /\ UNCHANGED <<config, environ, envWrites, jar, order, menu, subscriber,
                   eventinquiry, content, intents>>

(***************************************************************************)
(* Orders (main.py:179-257, schemas.py:53-77).  Amounts are whole numbers  *)
(* of 1/400 GBP.  Contact fields, notes and scheduled_for are stored as    *)
(* submitted (scheduled_for as None) and read by nothing; the model leaves *)
(* them out.                                                               *)
(***************************************************************************)
Penny == 4      \* 0.01 GBP in units of the model: what round(x, 2) rounds to

\* round(x, 2) of a float whose value is exact: to the nearest penny, a tie to
\* the even penny.
Round2(x) ==
    LET q == x \div Penny
        r == x % Penny
    IN  IF 2 * r < Penny THEN q * Penny
        ELSE IF 2 * r > Penny THEN (q + 1) * Penny
        ELSE IF q % 2 = 0 THEN q * Penny ELSE (q + 1) * Penny

\* A variant that trusts the line subtotal the client sent.
LineAmountFromClient(i) == i.subtotal

\* One term of the sum at main.py:191.
LineAmount(i) == i.unit_price * i.quantity

calculate_totals(items) ==
    LET subtotal == SumSeq([k \in 1..Len(items) |-> LineAmount(items[k])])
        taxes == Round2(subtotal * 0)
        fees == 0
        total == Round2(subtotal + taxes + fees)
    IN  [subtotal |-> subtotal, taxes |-> taxes, fees |-> fees, total |-> total]

\* OrderItem: quantity is Field(ge=1); a body that breaks it never reaches the handler (422).
OrderItemValid(i) == i.quantity >= 1
\* Order: order_type is Literal["pickup", "delivery"].
OrderValid(body) == body.order_type \in {"pickup", "delivery"}

IntentId(n) == <<"pi", n>>

\* Order(...).model_dump() at main.py:201-215.
Order(body, t) ==
    [order_type |-> body.order_type, items |-> body.items,
     subtotal |-> t.subtotal, taxes |-> t.taxes, fees |-> t.fees, total |-> t.total,
     currency |-> "GBP", status |-> "payment_required",
     payment_intent_id |-> NoneStr, payment_method |-> None, payment_ref |-> None]

\* main.py:228-229: the intent's id and the status set on the order document.
WithIntent(doc, intent) ==
    [doc EXCEPT !.payment_intent_id = intent.id, !.status = "payment_required"]

\* A variant that swallows the processor's exception and stores the order.
StripeFailedOrderKept(req, order_doc) ==
    /\ order' = create_document(order, order_doc)
    /\ last' = [status |-> 200, order_id |-> OidStr(NextId(order)),
                client_secret |-> NoneStr] @@ req
    /\ UNCHANGED intents

\* main.py:230-231: the processor's exception becomes a 500; nothing is stored.
StripeFailed(req, order_doc) ==
    /\ last' = [status |-> 500, detail |-> "Stripe error"] @@ req
    /\ UNCHANGED <<order, intents>>

\* create_order; stripe is what PaymentIntent.create does when it is called:
\* "ok" (an intent is created) or "error" (it raises).
CreateOrder(body, stripe) ==
    LET req == [op |-> "create_order", order_type |-> body.order_type]
        order_doc == Order(body, calculate_totals(body.items))
        intent == [id |-> IntentId(Len(intents) + 1)]
    IN  /\ IF \E k \in 1..Len(body.items) : ~OrderItemValid(body.items[k])
           THEN /\ last' = [status |-> 422] @@ req
                /\ UNCHANGED <<order, intents>>
           ELSE IF ~OrderValid(body)
           THEN /\ last' = [status |-> 500] @@ req    \* ValidationError, unhandled
                /\ UNCHANGED <<order, intents>>
           ELSE IF environ.STRIPE_SECRET # None
           THEN IF stripe = "ok"
                THEN /\ intents' = Append(intents, intent)
                     /\ order' = create_document(order, WithIntent(order_doc, intent))
                     /\ last' = [status |-> 200, order_id |-> OidStr(NextId(order)),
                                 client_secret |-> intent.id] @@ req
                ELSE StripeFailed(req, order_doc)
           ELSE /\ order' = create_document(order, order_doc)
                /\ last' = [status |-> 200, order_id |-> OidStr(NextId(order)),
                            client_secret |-> NoneStr] @@ req
                /\ UNCHANGED intents
        /\ UNCHANGED <<config, environ, envWrites, jar, reservation, menu, subscriber,
                       eventinquiry, content, workers>>

\* A variant that marks the order paid only when a payment_ref is supplied.
ConfirmFieldsIfRef(body, now) ==
    IF body.payment_ref = None THEN [updated_at |-> now]
    ELSE [status |-> "paid", payment_ref |-> body.payment_ref, updated_at |-> now]

\* The $set of confirm_order (main.py:254).
ConfirmFields(body, now) ==
    [status |-> "paid", payment_ref |-> body.payment_ref, updated_at |-> now]

\* confirm_order; now is datetime.utcnow().
ConfirmOrder(body, now) ==
    LET req == [op |-> "confirm_order", order_id |-> body.order_id,
                payment_ref |-> body.payment_ref]
    IN  /\ IF body.order_id = <<>>
           THEN /\ last' = [status |-> 400, detail |-> "Missing order_id"] @@ req
                /\ UNCHANGED order
           ELSE IF ~ObjectIdValid(body.order_id)
           THEN /\ last' = [status |-> 400, detail |-> "Invalid id"] @@ req
                /\ UNCHANGED order
           ELSE /\ order' = update_one(order, "_id", ObjectId(body.order_id),
                                       ConfirmFields(body, now), FALSE)
                /\ last' = [status |-> 200] @@ req
        /\ UNCHANGED <<config, environ, envWrites, jar, reservation, menu, subscriber,
                       eventinquiry, content, intents, workers>>

(***************************************************************************)
(* Admin session (main.py:74-92).                                          *)
(***************************************************************************)
\* main.py:76: the test that guards the bootstrap of the password hash.
NeedsBootstrap == ADMIN_PASSWORD_HASH = NoneStr

\* os.getenv("ADMIN_PASSWORD", "admin12345")
AdminPlain ==
    IF environ.ADMIN_PASSWORD = None THEN DefaultAdminPassword
    ELSE environ.ADMIN_PASSWORD

AdminLogin(payload) ==
    LET env1 == IF NeedsBootstrap
                THEN [environ EXCEPT !.ADMIN_PASSWORD_HASH = hash_password(AdminPlain)]
                ELSE environ
        hashed == env1.ADMIN_PASSWORD_HASH
        ok == ~(payload.email # ADMIN_EMAIL \/ ~verify_password(payload.password, hashed))
    IN  /\ environ' = env1
        /\ envWrites' = IF NeedsBootstrap THEN Min(envWrites + 1, MaxCountedWrites)
                        ELSE envWrites
        /\ jar' = IF ok THEN SessionCookie ELSE jar
        /\ last' = [op |-> "admin_login", status |-> IF ok THEN 200 ELSE 401,
                    email |-> payload.email, password |-> payload.password]
        /\ UNCHANGED <<config, collections, intents, workers>>

AdminLogout ==
    /\ jar' = NoneStr
    /\ last' = [op |-> "admin_logout", status |-> 200]
    /\ UNCHANGED <<config, environ, envWrites, collections, intents, workers>>

(***************************************************************************)
(* Public content (main.py:98-173, 297-300, 350-356).                      *)
(***************************************************************************)
Contains(seq, x) == \E i \in 1..Len(seq) : seq[i] = x

RECURSIVE SortByPosition(_)
\* list.sort(key=position): ascending and stable.
SortByPosition(s) ==
    IF s = <<>> THEN <<>>
    ELSE LET x == s[Len(s)]
             front == SortByPosition(SubSeq(s, 1, Len(s) - 1))
             n == Cardinality({i \in 1..Len(front) : front[i].position <= x.position})
         IN  SubSeq(front, 1, n) \o <<x>> \o SubSeq(front, n + 1, Len(front))

ReadOnly(response) ==
    /\ last' = response
    /\ UNCHANGED <<config, environ, envWrites, jar, collections, intents, workers>>

TestDatabase == ReadOnly([op |-> "test_database", status |-> 200])

GetSchema == ReadOnly([op |-> "get_schema_definitions", status |-> 200])

\* get_menu: tag and category are None or a string.
GetMenu(tag, category) ==
    LET items == SelectSeq(menuitem, LAMBDA d :
                    /\ (tag # None => Contains(d.tags, tag))
                    /\ (category # None => d.category_slug = category))
    IN  ReadOnly([op |-> "get_menu", status |-> 200, tag |-> tag, category |-> category,
                  categories |-> menucategory, items |-> items])

\* blog_list: the published posts (the order of the response is not modelled).
BlogList ==
    ReadOnly([op |-> "blog_list", status |-> 200,
              posts |-> {blogpost[i] : i \in {j \in 1..Len(blogpost) : blogpost[j].published}}])

BlogDetail(slug) ==
    LET docs == SelectSeq(blogpost, LAMBDA d : d.slug = slug /\ d.published)
    IN  IF docs = <<>>
        THEN ReadOnly([op |-> "blog_detail", status |-> 404, slug |-> slug])
        ELSE ReadOnly([op |-> "blog_detail", status |-> 200, slug |-> slug,
                       post |-> docs[1]])

GalleryList ==
    ReadOnly([op |-> "gallery_list", status |-> 200,
              images |-> SortByPosition(get_documents(galleryimage, "is_active", TRUE))])

Subscribe(body) ==
    LET existing == get_documents(subscriber, "email", body.email)
    IN  /\ IF existing # <<>> THEN UNCHANGED subscriber
           ELSE subscriber' = create_document(subscriber, body)
        /\ last' = [op |-> "subscribe", status |-> 200, sub_email |-> body.email]
        /\ UNCHANGED <<config, environ, envWrites, jar, reservation, order, menu,
                       eventinquiry, content, intents, workers>>

\* EventInquiry(**body): status defaults to "new".
EventInquiry(body) == body @@ [status |-> "new"]

NewInquiry(body) ==
    /\ eventinquiry' = create_document(eventinquiry, EventInquiry(body))
    /\ last' = [op |-> "new_inquiry", status |-> 200,
                inquiry_id |-> OidStr(NextId(eventinquiry))]
    /\ UNCHANGED <<config, environ, envWrites, jar, reservation, order, menu,
                   subscriber, content, intents, workers>>

(***************************************************************************)
(* Admin CRUD (main.py:306-344).  session is the boom_admin cookie of the  *)
(* request; require_admin runs as a dependency, before the handler.        *)
(***************************************************************************)
Unauthorized(op, session) ==
    /\ last' = [op |-> op, status |-> 401, session |-> session]
    /\ UNCHANGED <<config, environ, envWrites, jar, collections, intents, workers>>

AdminMenu(session) ==
    IF ~require_admin(session) THEN Unauthorized("admin_menu", session)
    ELSE ReadOnly([op |-> "admin_menu", status |-> 200, session |-> session,
                   categories |-> menucategory, items |-> menuitem])

\* A variant that inserts without looking for the slug.
UpsertAlwaysInserts(coll, payload) == create_document(coll, payload)

\* A variant that deletes the documents of the slug and inserts the payload.
UpsertDeleteInsert(coll, payload) ==
    Append(SelectSeq(coll, LAMBDA d : d.slug # payload.slug),
           [_id |-> NextId(coll)] @@ payload)

\* update_one({"slug": slug}, {"$set": payload}, upsert=True)
UpsertBySlug(coll, payload) == update_one(coll, "slug", payload.slug, payload, TRUE)

\* A variant of upsert_category registered without the require_admin dependency.
UpsertCategoryOpen(session, cat) ==
    /\ menucategory' = UpsertBySlug(menucategory, cat)
    /\ last' = [op |-> "upsert_category", status |-> 200, session |-> session,
                payload |-> cat]
    /\ UNCHANGED <<config, environ, envWrites, jar, reservation, order, menuitem,
                   subscriber, eventinquiry, content, intents, workers>>

UpsertCategory(session, cat) ==
    IF ~require_admin(session) THEN Unauthorized("upsert_category", session)
    ELSE /\ menucategory' = UpsertBySlug(menucategory, cat)
         /\ last' = [op |-> "upsert_category", status |-> 200, session |-> session,
                     payload |-> cat]
         /\ UNCHANGED <<config, environ, envWrites, jar, reservation, order, menuitem,
                        subscriber, eventinquiry, content, intents, workers>>

UpsertItem(session, item) ==
    IF ~require_admin(session) THEN Unauthorized("upsert_item", session)
    ELSE /\ menuitem' = UpsertBySlug(menuitem, item)
         /\ last' = [op |-> "upsert_item", status |-> 200, session |-> session,
                     payload |-> item]
         /\ UNCHANGED <<config, environ, envWrites, jar, reservation, order,
                        menucategory, subscriber, eventinquiry, content, intents, workers>>

(***************************************************************************)
(* Requests: the values the clients submit.                                *)
(***************************************************************************)
AdminEmails == {<<"a", "@">>, <<"a", ":">>, <<"b">>}
DefaultAdminEmail == <<"a", "@">>       \* stands for "admin@boomiis.uk"
DefaultSecret == "dev-secret-change"

LoginPayloads ==
    [email : {ADMIN_EMAIL, <<"b", "@">>}, password : Passwords \cup {"wrong"}]

IssuedSig == HmacHex(SESSION_SECRET, ADMIN_EMAIL)

\* The issued cookie with its e-mail part replaced.
AlteredEmailCookies ==
    {e \o <<":">> \o IssuedSig : e \in EmailStrings \ {ADMIN_EMAIL}}

SigStrings ==
    {HmacHex(k, e) : k \in Secrets, e \in EmailStrings}
        \cup {SubSeq(IssuedSig, 1, n) : n \in 0..(DigestLen - 1)}
        \cup {IssuedSig \o <<h>> : h \in HexChars \cup {":"}}
        \cup {[IssuedSig EXCEPT ![i] = h] : i \in 1..DigestLen, h \in HexChars \cup {":"}}

\* The issued cookie with its signature part replaced.
AlteredSigCookies ==
    {ADMIN_EMAIL \o <<":">> \o sg : sg \in SigStrings \ {IssuedSig}}

\* Values that do not split into email:signature.
UnparsableCookies ==
    {c \in {<<>>, <<"a">>, <<"a", "@">>, IssuedSig, ADMIN_EMAIL \o IssuedSig} :
        FirstColon(c) = 0}

SessionsWide ==
    {NoneStr, jar} \cup AlteredEmailCookies \cup AlteredSigCookies \cup UnparsableCookies
SessionsNarrow == {NoneStr, jar, <<"b", "b">> \o <<":">> \o IssuedSig}

Category(slug, name, position, active) ==
    [name |-> name, slug |-> slug, description |-> None, position |-> position,
     is_active |-> active]
CategoryPayloads ==
    {Category("mains", "Mains", 0, TRUE), Category("mains", "Main dishes", 2, FALSE),
     Category("sides", "Sides", 1, TRUE), Category("sides", "Sides", 0, TRUE)}

Item(slug, title, price, category, tags, active) ==
    [title |-> title, slug |-> slug, description |-> None, price |-> price,
     currency |-> "GBP", category_slug |-> category, image_url |-> None,
     tags |-> tags, allergens |-> <<>>, is_active |-> active]
ItemPayloads ==
    {Item("dosa", "Dosa", 3200, "mains", <<"vegan">>, TRUE),
     Item("dosa", "Masala dosa", 3600, "nowhere", <<>>, FALSE),
     Item("idli", "Idli", 2000, "sides", <<"vegan", "halal">>, TRUE),
     Item("idli", "Idli", -400, "sides", <<"vegan", "halal">>, TRUE)}

D1 == "2025-06-01"
T1 == "19:00"
T2 == "19:30"
ReservationBody(date, time, party_size) ==
    [date |-> date, time |-> time, party_size |-> party_size]
\* Slot (D1, T1), with party sizes on both sides of the schema's range.
SlotBodies == {ReservationBody(D1, T1, n) : n \in {0, 2, 21}}
\* Another slot of the same day.
OtherSlotBodies == {ReservationBody(D1, T2, n) : n \in {1, 20}}

OrderItem(slug, unit_price, quantity, subtotal) ==
    [item_slug |-> slug, unit_price |-> unit_price, quantity |-> quantity,
     subtotal |-> subtotal]
\* Prices in 1/400 GBP: 0.0625, 0.125 (x3), 2.50 (x2, with a wrong client subtotal),
\* a refund line of -0.0625, and a line whose quantity the schema refuses.
OrderItems ==
    {OrderItem("chai", 25, 1, 25), OrderItem("vada", 50, 3, 150),
     OrderItem("dosa", 1000, 2, 5), OrderItem("void", -25, 1, 0),
     OrderItem("none", 1000, 0, 0)}
OrderBodiesWide ==
    [order_type : {"pickup", "delivery"}, items : SeqsUpTo(OrderItems, MaxItems)]
OrderBodiesNarrow ==
    {[order_type |-> "pickup", items |-> <<OrderItem("dosa", 1000, 2, 2000)>>],
     [order_type |-> "dine-in", items |-> <<OrderItem("dosa", 1000, 2, 2000)>>],
     [order_type |-> "delivery", items |-> <<OrderItem("none", 1000, 0, 0)>>]}

StripeOutcomes == {"ok", "error"}
Times == {"t1", "t2"}
PaymentRefs == {None, "ch_1"}
\* Ids of the first orders, an id no order has, and malformed ids.
OrderIds ==
    {OidStr(n) : n \in 1..3} \cup {OidStr(200)}
        \cup {<<>>, <<"1">>, [OidStr(1) EXCEPT ![1] = "g"], OidStr(1) \o <<"0">>}
ConfirmBodies == [order_id : OrderIds, payment_ref : PaymentRefs]

SubscribeBodies == {[email |-> "x@y.z", name |-> None]}
InquiryBodies == {[full_name |-> "Ada", email |-> "x@y.z", headcount |-> 30]}

(***************************************************************************)
(* Initial states: the process right after import, over a store that holds *)
(* what earlier processes (or the staff, directly) left in it.             *)
(***************************************************************************)
BlogPosts ==
    <<[_id |-> 1, slug |-> "hello", published |-> TRUE, published_at |-> <<2>>],
      [_id |-> 2, slug |-> "draft", published |-> FALSE, published_at |-> <<>>],
      [_id |-> 3, slug |-> "undated", published |-> TRUE, published_at |-> <<>>]>>
GalleryImages ==
    <<[_id |-> 1, image_url |-> "u3", position |-> 3, is_active |-> TRUE],
      [_id |-> 2, image_url |-> "u1", position |-> 1, is_active |-> TRUE],
      [_id |-> 3, image_url |-> "u0", position |-> 0, is_active |-> FALSE],
      [_id |-> 4, image_url |-> "u2", position |-> 2, is_active |-> TRUE]>>

\* schemas.py:88: the statuses of a reservation.
ReservationStatuses == <<"requested", "confirmed", "declined", "cancelled">>

\* n stored reservations of slot (D1, T1), their statuses taken in turn.
StoredReservations(n) ==
    [i \in 1..n |-> [_id |-> i, date |-> D1, time |-> T1, party_size |-> 2,
                     status |-> ReservationStatuses[((i - 1) % 4) + 1]]]

\* n stored reservations of slot (D1, T1), all confirmed.
ConfirmedReservations(n) ==
    [i \in 1..n |-> [_id |-> i, date |-> D1, time |-> T1, party_size |-> 2,
                     status |-> "confirmed"]]

\* An order the staff cancelled.
CancelledOrder ==
    [Order([order_type |-> "pickup", items |-> <<OrderItem("dosa", 1000, 2, 2000)>>],
           calculate_totals(<<OrderItem("dosa", 1000, 2, 2000)>>))
        EXCEPT !.status = "cancelled"] @@ [_id |-> 1]

Workers == 1..NumWorkers

InitWith(emails, secrets, hashes, plains, stripes, reservations, orders) ==
    /\ ADMIN_EMAIL \in emails
    /\ SESSION_SECRET \in secrets
    /\ environ \in [ADMIN_PASSWORD_HASH : hashes, ADMIN_PASSWORD : plains,
                    STRIPE_SECRET : stripes]
    /\ ADMIN_PASSWORD_HASH = environ.ADMIN_PASSWORD_HASH
    /\ envWrites = 0
    /\ jar = NoneStr
    /\ reservation \in reservations
    /\ order \in orders
    /\ menucategory = <<>>
    /\ menuitem = <<>>
    /\ subscriber = <<>>
    /\ eventinquiry = <<>>
    /\ blogpost = BlogPosts
    /\ galleryimage = GalleryImages
    /\ intents = <<>>
    /\ workers = [w \in Workers |-> Idle]
    /\ last = [op |-> "start", status |-> 0]

(***************************************************************************)
(* Spec: every handler, one request at a time, on small requests.          *)
(***************************************************************************)
Init ==
    InitWith({DefaultAdminEmail}, {DefaultSecret}, {NoneStr}, {None}, {"sk_test"},
             {<<>>, ConfirmedReservations(Capacity - 1)}, {<<>>})

Requested(coll) == Len(SelectSeq(coll, LAMBDA d : d.status = "requested"))

\* The documents created since the process started.
Created ==
    Len(order) + Len(subscriber) + Len(eventinquiry) + Len(menucategory)
        + Len(menuitem) + Requested(reservation)

Next ==
    \/ \E p \in [email : {ADMIN_EMAIL}, password : {DefaultAdminPassword, "wrong"}] :
            AdminLogin(p)
    \/ AdminLogout
    \/ TestDatabase
    \/ GetSchema
    \/ \E q \in {<<None, None>>, <<"vegan", "mains">>} : GetMenu(q[1], q[2])
    \/ BlogList
    \/ \E slug \in {"hello", "draft", "nope"} : BlogDetail(slug)
    \/ GalleryList
    \/ \E b \in SubscribeBodies : Subscribe(b) /\ Created' <= MaxDocs
    \/ \E b \in InquiryBodies : NewInquiry(b) /\ Created' <= MaxDocs
    \/ \E b \in OrderBodiesNarrow, s \in StripeOutcomes :
            CreateOrder(b, s) /\ Created' <= MaxDocs
    \/ \E b \in [order_id : {OidStr(1), OidStr(200), <<"1">>}, payment_ref : {"ch_1"}] :
            ConfirmOrder(b, "t1")
    \/ \E b \in {ReservationBody(D1, T1, 2)} :
            CreateReservation(b) /\ Created' <= MaxDocs
    \/ \E c \in SessionsNarrow : AdminMenu(c)
    \/ \E c \in SessionsNarrow, cat \in {Category("mains", "Mains", 0, TRUE),
                                         Category("mains", "Main dishes", 2, FALSE)} :
            UpsertCategory(c, cat) /\ Created' <= MaxDocs
    \/ \E c \in SessionsNarrow, item \in {Item("dosa", "Dosa", 3200, "mains", <<"vegan">>, TRUE),
                                          Item("dosa", "Masala dosa", 3600, "nowhere", <<>>, FALSE)} :
            UpsertItem(c, item) /\ Created' <= MaxDocs

Spec == Init /\ [][Next]_vars

(***************************************************************************)
(* SpecAuth: the admin session under every configuration, with forged and  *)
(* altered cookies.                                                        *)
(***************************************************************************)
InitAuth ==
    InitWith(AdminEmails, Secrets, {NoneStr, hash_password("hunter2")},
             {None, "hunter2"}, {None}, {<<>>}, {<<>>})

NextAuth ==
    \/ \E p \in LoginPayloads : AdminLogin(p)
    \/ AdminLogout
    \/ \E c \in SessionsWide : AdminMenu(c)

SpecAuth == InitAuth /\ [][NextAuth]_vars

(***************************************************************************)
(* SpecMenu: the admin upserts, over every payload.                        *)
(***************************************************************************)
InitMenu ==
    InitWith({DefaultAdminEmail}, {DefaultSecret}, {NoneStr}, {None}, {None},
             {<<>>}, {<<>>})

NextMenu ==
    \/ AdminLogin([email |-> ADMIN_EMAIL, password |-> DefaultAdminPassword])
    \/ AdminLogout
    \/ \E c \in {NoneStr, jar}, cat \in CategoryPayloads : UpsertCategory(c, cat)
    \/ \E c \in {NoneStr, jar}, item \in ItemPayloads : UpsertItem(c, item)

SpecMenu == InitMenu /\ [][NextMenu]_vars

(***************************************************************************)
(* SpecReservations: create_reservation, one request at a time.            *)
(***************************************************************************)
InitReservations ==
    InitWith({DefaultAdminEmail}, {DefaultSecret}, {NoneStr}, {None}, {None},
             {<<>>, StoredReservations(2 * Capacity - 2)}, {<<>>})

InOtherSlot(coll) == Len(SelectSeq(coll, LAMBDA d : d.time = T2))

NextReservations ==
    \/ \E b \in SlotBodies : CreateReservation(b)
    \/ \E b \in OtherSlotBodies :
            CreateReservation(b) /\ InOtherSlot(reservation') <= MaxOtherSlot

SpecReservations == InitReservations /\ [][NextReservations]_vars

(***************************************************************************)
(* SpecRace: create_reservation requests of one slot on concurrent         *)
(* threadpool workers.                                                     *)
(***************************************************************************)
InitRace ==
    InitWith({DefaultAdminEmail}, {DefaultSecret}, {NoneStr}, {None}, {None},
             {<<>>}, {<<>>})

NextRace ==
    \/ \E w \in Workers : ReservationCount(w, ReservationBody(D1, T1, 2))
    \/ \E w \in Workers : ReservationInsert(w)

SpecRace == InitRace /\ [][NextRace]_vars

(***************************************************************************)
(* SpecOrders: create_order and confirm_order.                             *)
(***************************************************************************)
InitOrders ==
    InitWith({DefaultAdminEmail}, {DefaultSecret}, {NoneStr}, {None}, {None, "sk_test"},
             {<<>>}, {<<>>, <<CancelledOrder>>})

NextOrders ==
    \/ \E b \in OrderBodiesNarrow, s \in StripeOutcomes :
            CreateOrder(b, s) /\ Len(order') <= MaxOrders
    \/ \E b \in ConfirmBodies, now \in Times : ConfirmOrder(b, now)

SpecOrders == InitOrders /\ [][NextOrders]_vars

(***************************************************************************)
(* SpecTotals: create_order applied once, to every list of items, on each   *)
(* initial store (calculate_totals reads nothing but the submitted items). *)
(***************************************************************************)
NextTotals ==
    \E b \in OrderBodiesWide, s \in StripeOutcomes :
        /\ order \in {<<>>, <<CancelledOrder>>}
        /\ CreateOrder(b, s)

SpecTotals == InitOrders /\ [][NextTotals]_vars

(***************************************************************************)
(* Claims.                                                                 *)
(***************************************************************************)
Active(d) == d.status \in {"requested", "confirmed"}
ActiveIn(coll, date, time) ==
    Cardinality({i \in 1..Len(coll) :
        coll[i].date = date /\ coll[i].time = time /\ Active(coll[i])})
SlotsOf(coll) == {<<coll[i].date, coll[i].time>> : i \in 1..Len(coll)}

\* What one create_reservation request with a valid body must have done, given
\* the store before it and the response in last'.
GateStep ==
    (last'.op = "create_reservation" /\ last'.party_size \in 1..20) =>
        LET n == ActiveIn(reservation, last'.date, last'.time)
        IN  IF n >= 20
            THEN last'.status = 409 /\ reservation' = reservation
            ELSE /\ last'.status = 200
                 /\ Len(reservation') = Len(reservation) + 1
                 /\ SubSeq(reservation', 1, Len(reservation)) = reservation
                 /\ LET d == reservation'[Len(reservation')]
                    IN  /\ d.status = "requested"
                        /\ d.date = last'.date /\ d.time = last'.time
                        /\ d.party_size = last'.party_size
                        /\ last'.reservation_id = OidStr(d._id)

C8_CheckThenInsert ==
    [][\A w \in Workers :
          (/\ workers[w].pc = "counted" /\ workers'[w].pc = "idle"
           /\ workers[w].existing < 20
           /\ workers[w].body.party_size \in 1..20)
          => /\ Len(reservation') = Len(reservation) + 1
             /\ SubSeq(reservation', 1, Len(reservation)) = reservation
             /\ reservation'[Len(reservation')].status = "requested"
             /\ last'.status = 200]_vars

\* C8's case: two requests counted 19, both inserted, and the slot holds 21.
C8_Witness ==
    /\ ActiveIn(reservation, D1, T1) = 21
    /\ last.op = "create_reservation" /\ last.status = 200 /\ last.existing = 19

IntentIds == {intents[i].id : i \in 1..Len(intents)}

WellFormedId(sid) ==
    Len(sid) = 24 /\ \A i \in 1..Len(sid) : sid[i] \in HexChars
Kept(d) == [f \in DOMAIN d \ {"status", "payment_ref", "updated_at"} |-> d[f]]

\* The order was in the store before the process started.
StoredBefore(d) == Kept(d) = Kept(CancelledOrder)

\* What one create_order request must have done when a credential is configured.
PaymentStep ==
    (last'.op = "create_order" /\ environ.STRIPE_SECRET # None) =>
        /\ last'.status = 500 => (order' = order)
        /\ order' # order =>
              /\ Len(intents') = Len(intents) + 1
              /\ Len(order') = Len(order) + 1
              /\ SubSeq(order', 1, Len(order)) = order
              /\ LET d == order'[Len(order')]
                 IN  /\ d.payment_intent_id = intents'[Len(intents')].id
                     /\ d.status = "payment_required"
                     /\ last'.status = 200
        /\ intents' = intents => order' = order

\* C4: with a payment-processor credential configured, create_order persists an
\* order only together with a payment intent it has just created: when the
\* creation of the intent fails the request fails with 500 and the order
\* collection is unchanged, and every order persisted carries the id of a
\* created intent and the status "payment_required".
C4_IntentBeforeOrder ==
    /\ [](environ.STRIPE_SECRET # None =>
            \A i \in 1..Len(order) :
                ~StoredBefore(order[i]) => order[i].payment_intent_id \in IntentIds)
    /\ [][PaymentStep]_vars

\* C4's case: the processor has refused an intent after an order was stored with one.
C4_Witness ==
    /\ environ.STRIPE_SECRET # None
    /\ last.op = "create_order" /\ last.status = 500 /\ last.order_type = "pickup"
    /\ \E i \in 1..Len(order) : order[i].payment_intent_id \in IntentIds
    /\ Len(SelectSeq(order, LAMBDA d : ~StoredBefore(d))) = Len(intents)

\* What one confirm_order request must have done.
ConfirmStep ==
    last'.op = "confirm_order" =>
        IF ~WellFormedId(last'.order_id)
        THEN last'.status = 400 /\ order' = order
        ELSE /\ last'.status = 200
             /\ Len(order') = Len(order)
             /\ \A i \in 1..Len(order) :
                    IF OidStr(order[i]._id) = last'.order_id
                    THEN /\ order'[i].status = "paid"
                         /\ order'[i].payment_ref = last'.payment_ref
                         /\ Kept(order'[i]) = Kept(order[i])
                    ELSE order'[i] = order[i]

RECURSIVE SumOfLines(_)
SumOfLines(items) ==
    IF items = <<>> THEN 0
    ELSE items[1].unit_price * items[1].quantity + SumOfLines(Tail(items))

\* t is x rounded to two decimals: a whole number of pennies nearest to x, the
\* even one when two are as near.
IsRounded(t, x) ==
    /\ t % Penny = 0
    /\ 2 * (t - x) <= Penny /\ 2 * (x - t) <= Penny
    /\ (2 * (t - x) = Penny \/ 2 * (x - t) = Penny) => (t \div Penny) % 2 = 0

SlugsOf(coll) == {coll[i].slug : i \in 1..Len(coll)}
WithSlug(coll, slug) == {i \in 1..Len(coll) : coll[i].slug = slug}
Fields(d) == [f \in DOMAIN d \ {"_id"} |-> d[f]]

\* At most one document per slug.
SlugsUnique(coll) == \A slug \in SlugsOf(coll) : Cardinality(WithSlug(coll, slug)) = 1

\* What an accepted upsert of payload must have made of collection before.
UpsertedInto(before, after, payload) ==
    /\ Cardinality(WithSlug(after, payload.slug)) = 1
    /\ \A i \in WithSlug(after, payload.slug) : Fields(after[i]) = payload
    /\ Len(after) = Len(before) + (IF payload.slug \in SlugsOf(before) THEN 0 ELSE 1)
    /\ \A i \in 1..Len(before) :
          IF before[i].slug = payload.slug THEN after[i]._id = before[i]._id
          ELSE after[i] = before[i]

UpsertStep ==
    /\ (last'.op = "upsert_category" /\ last'.status = 200)
          => UpsertedInto(menucategory, menucategory', last'.payload)
    /\ (last'.op = "upsert_item" /\ last'.status = 200)
          => UpsertedInto(menuitem, menuitem', last'.payload)

\* C6: an accepted upsert of a stored slug replaces every field of the stored
\* document by the payload's and adds no document; of a slug not stored, it adds
\* exactly one document.  The same payload upserted again leaves the store as
\* it is, and there is at most one document per slug, holding the payload last
\* submitted for it.
C6_UpsertBySlug ==
    /\ [](SlugsUnique(menucategory) /\ SlugsUnique(menuitem))
    /\ []((last.op = "upsert_item" /\ last.status = 200) =>
            /\ UpsertBySlug(menuitem, last.payload) = menuitem
            /\ \A i \in WithSlug(menuitem, last.payload.slug) :
                    Fields(menuitem[i]) = last.payload)
    /\ []((last.op = "upsert_category" /\ last.status = 200) =>
            /\ UpsertBySlug(menucategory, last.payload) = menucategory
            /\ \A i \in WithSlug(menucategory, last.payload.slug) :
                    Fields(menucategory[i]) = last.payload)
    /\ [][UpsertStep]_vars

\* C6's case: both items stored, "dosa" first, and "dosa" just replaced by its
\* second payload in place.
C6_Witness ==
    /\ last.op = "upsert_item" /\ last.status = 200
    /\ last.payload = Item("dosa", "Masala dosa", 3600, "nowhere", <<>>, FALSE)
    /\ Len(menuitem) = 2
    /\ menuitem[1] = [_id |-> 1] @@ last.payload
    /\ menuitem[2].slug = "idli"
    /\ Len(menucategory) = 2

AdminOps == {"admin_menu", "upsert_category", "upsert_item"}

\* C3: the menu collections change only in an upsert_category or upsert_item
\* request whose cookie require_admin accepts; an admin request with no cookie
\* or a rejected one returns 401 and leaves every collection unchanged; no
\* public endpoint writes to the menu collections.
C3_MenuWritesNeedAdmin ==
    [][/\ menu' # menu =>
            /\ last'.op \in {"upsert_category", "upsert_item"}
            /\ last'.status = 200
            /\ require_admin(last'.session)
       /\ (last'.op \in AdminOps /\ ~require_admin(last'.session)) =>
            /\ last'.status = 401
            /\ collections' = collections
       /\ (last'.op \in AdminOps /\ require_admin(last'.session)) => last'.status = 200
       /\ last'.op = "upsert_category" => menuitem' = menuitem
       /\ last'.op = "upsert_item" => menucategory' = menucategory]_vars

\* C3's case: a menu item is stored and an upsert with an altered cookie has
\* just been refused.
C3_Witness ==
    /\ last.op = "upsert_item" /\ last.status = 401
    /\ last.session \notin {NoneStr, <<>>}
    /\ jar = SessionCookie
    /\ Len(menuitem) = 1 /\ Len(menucategory) = 1

\* Every stored document is still there, in place and unchanged.
Untouched(before, after) ==
    Len(after) >= Len(before) /\ SubSeq(after, 1, Len(before)) = before

\* Every stored order is still there, in place, and differs at most in its
\* status, payment_ref and updated_at, and then only if confirming is TRUE.
OrdersKept(before, after, confirming) ==
    /\ Len(after) >= Len(before)
    /\ \A i \in 1..Len(before) :
          \/ after[i] = before[i]
          \/ confirming /\ Kept(after[i]) = Kept(before[i])

\* Every stored menu document is still there, in place, and differs only if
\* upserting is TRUE, and then it keeps its _id and its slug.
MenuKept(before, after, upserting) ==
    /\ Len(after) >= Len(before)
    /\ \A i \in 1..Len(before) :
          \/ after[i] = before[i]
          \/ /\ upserting
             /\ after[i]._id = before[i]._id
             /\ after[i].slug = before[i].slug /\ after[i].slug = last'.payload.slug

\* C10: no request removes a document from any collection; a stored document is
\* modified only by confirm_order (an order's status, payment_ref, updated_at)
\* or by upsert_category / upsert_item (the menu document of that slug); every
\* other request leaves the stored documents as they are: a stored reservation
\* keeps its status, and a request answered 400, 401, 404 or 409 changes nothing.
C10_Frame ==
    [][/\ Untouched(reservation, reservation')
       /\ Untouched(subscriber, subscriber')
       /\ Untouched(eventinquiry, eventinquiry')
       /\ Untouched(blogpost, blogpost')
       /\ Untouched(galleryimage, galleryimage')
       /\ OrdersKept(order, order', last'.op = "confirm_order")
       /\ MenuKept(menucategory, menucategory', last'.op = "upsert_category")
       /\ MenuKept(menuitem, menuitem', last'.op = "upsert_item")
       /\ last'.status \in {400, 401, 404, 409} => collections' = collections]_vars

\* C10's case: a reservation and a paid order are stored, and a request for a
\* post that is not there has just been answered 404.
C10_Witness ==
    /\ last.op = "blog_detail" /\ last.status = 404
    /\ \E i \in 1..Len(reservation) : reservation[i].status = "requested"
    /\ \E i \in 1..Len(order) : order[i].status = "paid"

TamperedCookies == AlteredEmailCookies \cup AlteredSigCookies

\* C2 as stated: under every configured admin e-mail and session secret, the
\* cookie a successful admin_login sets is accepted by require_admin, and every
\* cookie got from it by altering the e-mail part or the signature part, a
\* missing cookie and one that does not parse as email:signature are rejected.
C2_LoginCookieVerifies ==
    /\ jar # NoneStr => require_admin(jar)
    /\ \A c \in TamperedCookies \cup UnparsableCookies \cup {NoneStr} : ~require_admin(c)

\* The part of C2 the code keeps: the cookie is accepted when the admin e-mail
\* holds no colon, and altered, missing and unparsable cookies are rejected
\* under every configuration.
C2_HoldsWithoutColon ==
    /\ (jar # NoneStr /\ FirstColon(ADMIN_EMAIL) = 0) => require_admin(jar)
    /\ \A c \in TamperedCookies \cup UnparsableCookies \cup {NoneStr} : ~require_admin(c)

\* C9: in a process started with no configured password hash,
\* os.environ["ADMIN_PASSWORD_HASH"] is assigned at most once: only the first
\* admin_login writes it.
C9_HashWrittenOnce == ADMIN_PASSWORD_HASH = NoneStr => envWrites <= 1

\* What the code keeps of C9: once written, the value never changes.
C9_HashValueStable ==
    [][environ.ADMIN_PASSWORD_HASH # NoneStr =>
            environ'.ADMIN_PASSWORD_HASH = environ.ADMIN_PASSWORD_HASH]_vars

====
